---- MODULE Spec2Model ----
(***************************************************************************)
(* Word Cloud Generator (src/main.py): the linear pipeline of main() and   *)
(* the pure helpers it calls.                                              *)
(*                                                                         *)
(* A word is a sequence of one-character strings, so that str.strip() and  *)
(* len() are computed rather than assumed.  The files the run reads are    *)
(* part of the initial state; the outcome of every write, render and       *)
(* display is chosen by the environment when the step runs.                *)
(***************************************************************************)
EXTENDS Integers, Sequences, FiniteSets, TLC

VARIABLES
    pc,          \* position of main(): the step that runs next, or "exit"
    exitCode,    \* process exit status; -1 while main() is still running
    error,       \* the exception raised by a step: [kind, step]
    trace,       \* the pipeline steps that have been called, in order
    configFile,  \* the file at config_path: [kind, map]
    config,      \* the local `config` of main()
    csvFile,     \* the file at config['csv_path']: [kind, columns, hasRows]
    df,          \* the table returned by read_csv_data
    stopFile,    \* data/stopwords.txt: [kind, lines]
    stopwords,   \* the local `stopwords` of main()
    cutTokens,   \* what jieba.cut yields on the joined text of the column
    word_list,   \* the local `word_list` of main()
    word_counts, \* the local `word_counts`: <<word, count>> in insertion order
    files,       \* state of the three output files on disk
    dumpTxt,     \* lines of output/segmented_words.txt written by this run
    countsCsv,   \* rows of output/word_counts.csv written by this run
    display,     \* the --display flag
    displayed    \* what display_wordcloud did: "no", "shown" or "failed"

vars == <<pc, exitCode, error, trace, configFile, config, csvFile, df, stopFile,
          stopwords, cutTokens, word_list, word_counts, files, dumpTxt,
          countsCsv, display, displayed>>

-----------------------------------------------------------------------------
(* Bounds of the model.                                                    *)

MaxDim == 1
MaxMinLen == 2
MaxTokens == 4

-----------------------------------------------------------------------------
(* Sequence helpers.                                                       *)

Last(s) == s[Len(s)]

Front(s) == SubSeq(s, 1, Len(s) - 1)

Range(s) == {s[i] : i \in 1..Len(s)}

IsPrefix(s, t) == Len(s) <= Len(t) /\ s = SubSeq(t, 1, Len(s))

-----------------------------------------------------------------------------
(* Configuration: load_config and validate_config.                         *)

Keys == {"csv_path", "text_column", "output_img", "font_path",
         "background_color", "width", "height", "colormap",
         "min_word_length", "max_words", "relative_scaling",
         "use_custom_colors", "custom_colors"}

defaults ==
    [csv_path |-> "data/input.csv",
     text_column |-> "title",
     output_img |-> "output/wordcloud.png",
     font_path |-> "/System/Library/Fonts/STHeiti Medium.ttc",
     background_color |-> "white",
     width |-> 1920,
     height |-> 1080,
     colormap |-> "viridis",
     min_word_length |-> 2,
     max_words |-> 200,
     relative_scaling |-> "0.5",
     use_custom_colors |-> FALSE,
     custom_colors |-> <<>>]

EmptyMap == [k \in {} |-> 0]

NoError == [kind |-> "none", step |-> "none"]

Return(v) == [raised |-> FALSE, kind |-> "none", value |-> v]

Raise(k) == [raised |-> TRUE, kind |-> k, value |-> 0]

load_config(file) ==
    IF file.kind = "missing" THEN Raise("ConfigNotFound")
    ELSE IF file.kind = "unparsable" THEN Raise("ConfigParseError")
    ELSE Return(file.map)

\* validate_config with `and` in place of `or` in the width/height test.
validate_config_and(c) ==
    LET c1 == [k \in (DOMAIN c) \cup Keys |->
                  IF k \in DOMAIN c THEN c[k] ELSE defaults[k]]
        c2 == IF c1["width"] <= 0 /\ c1["height"] <= 0
              THEN [c1 EXCEPT !["width"] = defaults["width"],
                              !["height"] = defaults["height"]]
              ELSE c1
    IN  IF c2["min_word_length"] < 1
        THEN [c2 EXCEPT !["min_word_length"] = 1]
        ELSE c2

\* validate_config testing min_word_length < 0 instead of < 1.
validate_config_neg(c) ==
    LET c1 == [k \in (DOMAIN c) \cup Keys |->
                  IF k \in DOMAIN c THEN c[k] ELSE defaults[k]]
        c2 == IF c1["width"] <= 0 \/ c1["height"] <= 0
              THEN [c1 EXCEPT !["width"] = defaults["width"],
                              !["height"] = defaults["height"]]
              ELSE c1
    IN  IF c2["min_word_length"] < 0
        THEN [c2 EXCEPT !["min_word_length"] = 1]
        ELSE c2

\* validate_config whose defaulting loop misses the last key of the table.
validate_config_skip(c) ==
    LET c1 == [k \in (DOMAIN c) \cup (Keys \ {"custom_colors"}) |->
                  IF k \in DOMAIN c THEN c[k] ELSE defaults[k]]
        c2 == IF c1["width"] <= 0 \/ c1["height"] <= 0
              THEN [c1 EXCEPT !["width"] = defaults["width"],
                              !["height"] = defaults["height"]]
              ELSE c1
    IN  IF c2["min_word_length"] < 1
        THEN [c2 EXCEPT !["min_word_length"] = 1]
        ELSE c2

validate_config(c) ==
    LET c1 == [k \in (DOMAIN c) \cup Keys |->
                  IF k \in DOMAIN c THEN c[k] ELSE defaults[k]]
        c2 == IF c1["width"] <= 0 \/ c1["height"] <= 0
              THEN [c1 EXCEPT !["width"] = defaults["width"],
                              !["height"] = defaults["height"]]
              ELSE c1
    IN  IF c2["min_word_length"] < 1
        THEN [c2 EXCEPT !["min_word_length"] = 1]
        ELSE c2

-----------------------------------------------------------------------------
(* Words: str.strip, the token filter of segment_text, Counter and         *)
(* Counter.most_common.                                                    *)

IsSpace(c) == c = " "

RECURSIVE lstrip(_)
lstrip(w) ==
    IF w = <<>> THEN w
    ELSE IF IsSpace(Head(w)) THEN lstrip(Tail(w)) ELSE w

RECURSIVE rstrip(_)
rstrip(w) ==
    IF w = <<>> THEN w
    ELSE IF IsSpace(Last(w)) THEN rstrip(Front(w)) ELSE w

strip(w) == rstrip(lstrip(w))

\* segment_text testing the untrimmed token against the stopword set.
RECURSIVE segment_text_raw(_, _, _)
segment_text_raw(words, stops, min_length) ==
    IF words = <<>> THEN <<>>
    ELSE LET w == Head(words)
             rest == segment_text_raw(Tail(words), stops, min_length)
         IN  IF /\ strip(w) # <<>>
                /\ Len(strip(w)) >= min_length
                /\ w \notin stops
             THEN <<strip(w)>> \o rest
             ELSE rest

RECURSIVE segment_text(_, _, _)
segment_text(words, stops, min_length) ==
    IF words = <<>> THEN <<>>
    ELSE LET w == Head(words)
             rest == segment_text(Tail(words), stops, min_length)
         IN  IF /\ strip(w) # <<>>
                /\ Len(strip(w)) >= min_length
                /\ strip(w) \notin stops
             THEN <<strip(w)>> \o rest
             ELSE rest

\* `not word_list` with the test left out.
NoWords_never(wl) == FALSE

NoWords(wl) == wl = <<>>

\* One update of a Counter: an existing key keeps its place, a new key is
\* appended (dict insertion order).
CounterAdd(c, w) ==
    IF \E i \in 1..Len(c) : c[i][1] = w
    THEN [i \in 1..Len(c) |-> IF c[i][1] = w THEN <<w, c[i][2] + 1>> ELSE c[i]]
    ELSE Append(c, <<w, 1>>)

RECURSIVE Counter(_)
Counter(wl) ==
    IF wl = <<>> THEN <<>> ELSE CounterAdd(Counter(Front(wl)), Last(wl))

\* Insert x into s, sorted by count descending, behind every item whose count
\* is not smaller (a stable sort with reverse=True).
InsertDesc(s, x) ==
    LET smaller == {i \in 1..Len(s) : s[i][2] < x[2]}
        at == IF smaller = {} THEN Len(s) + 1
              ELSE CHOOSE i \in smaller : \A j \in smaller : i <= j
    IN  SubSeq(s, 1, at - 1) \o <<x>> \o SubSeq(s, at, Len(s))

\* The same insertion in front of the items of equal count.
InsertDescFront(s, x) ==
    LET notLarger == {i \in 1..Len(s) : s[i][2] <= x[2]}
        at == IF notLarger = {} THEN Len(s) + 1
              ELSE CHOOSE i \in notLarger : \A j \in notLarger : i <= j
    IN  SubSeq(s, 1, at - 1) \o <<x>> \o SubSeq(s, at, Len(s))

\* most_common with a sort that does not keep the order of equal counts.
RECURSIVE most_common_unstable(_)
most_common_unstable(c) ==
    IF c = <<>> THEN <<>>
    ELSE InsertDescFront(most_common_unstable(Front(c)), Last(c))

RECURSIVE most_common(_)
most_common(c) ==
    IF c = <<>> THEN <<>> ELSE InsertDesc(most_common(Front(c)), Last(c))

-----------------------------------------------------------------------------
(* Readers: load_stopwords and read_csv_data.                              *)

load_stopwords(file) ==
    IF file.kind = "missing" THEN {}
    ELSE IF file.kind = "unreadable" THEN {}
    ELSE {strip(l) : l \in {m \in file.lines : strip(m) # <<>>}}

NoDf == [columns |-> {}, hasRows |-> FALSE]

\* read_csv_data handing back an empty table for a file without content.
read_csv_data_lenient(csv, text_column) ==
    IF csv.kind = "missing" THEN Raise("FileNotFound")
    ELSE IF csv.kind = "nocontent" THEN Return(NoDf)
    ELSE IF csv.kind = "malformed" THEN Raise("ParseError")
    ELSE IF text_column \notin csv.columns THEN Raise("ColumnNotFound")
    ELSE Return([columns |-> {text_column}, hasRows |-> csv.hasRows])

\* pd.read_csv raises EmptyDataError when the file has no columns to parse;
\* a header line without data rows parses to a table of zero rows.
read_csv_data(csv, text_column) ==
    IF csv.kind = "missing" THEN Raise("FileNotFound")
    ELSE IF csv.kind = "nocontent" THEN Raise("EmptyData")
    ELSE IF csv.kind = "malformed" THEN Raise("ParseError")
    ELSE IF text_column \notin csv.columns THEN Raise("ColumnNotFound")
    ELSE Return([columns |-> {text_column}, hasRows |-> csv.hasRows])

-----------------------------------------------------------------------------
(* Writers, renderer and viewer.  r is what the environment lets the call  *)
(* do.                                                                     *)

WriteResults == {"ok", "open_failed", "write_failed"}

\* open(path, 'w') truncates the file; a failed open leaves it as it was.
WriteFile(old, r) ==
    IF r = "ok" THEN "written"
    ELSE IF r = "write_failed" THEN "partial"
    ELSE old

\* save_segmented_words logging the exception without re-raising it.
save_segmented_words_quiet(wl, old, r) ==
    [raised |-> FALSE,
     kind |-> IF r = "ok" THEN "none" ELSE "IOError",
     file |-> WriteFile(old, r),
     lines |-> IF r = "ok" THEN wl ELSE <<>>]

save_segmented_words(wl, old, r) ==
    [raised |-> r # "ok",
     kind |-> IF r = "ok" THEN "none" ELSE "IOError",
     file |-> WriteFile(old, r),
     lines |-> IF r = "ok" THEN wl ELSE <<>>]

\* The rows are written first; the log line then reads df.iloc[0], which
\* raises on a table without rows.
save_word_counts(wc, old, r) ==
    LET table == most_common(wc)
    IN  [raised |-> r # "ok" \/ table = <<>>,
         kind |-> IF r # "ok" THEN "IOError"
                  ELSE IF table = <<>> THEN "IndexError" ELSE "none",
         file |-> WriteFile(old, r),
         rows |-> IF r = "ok" THEN table ELSE <<>>]

\* generate_wordcloud logging the exception without re-raising it.
generate_wordcloud_quiet(r) ==
    [raised |-> FALSE, kind |-> IF r = "ok" THEN "none" ELSE "RenderError"]

generate_wordcloud(r) ==
    [raised |-> r # "ok", kind |-> IF r = "ok" THEN "none" ELSE "RenderError"]

save_wordcloud(old, r) ==
    [raised |-> r # "ok",
     kind |-> IF r = "ok" THEN "none" ELSE "IOError",
     file |-> WriteFile(old, r)]

\* display_wordcloud re-raising the exception after logging it.
display_wordcloud_raise(r) ==
    [raised |-> r # "ok", kind |-> "none",
     shown |-> IF r = "ok" THEN "shown" ELSE "failed"]

display_wordcloud(r) ==
    [raised |-> FALSE, kind |-> "none",
     shown |-> IF r = "ok" THEN "shown" ELSE "failed"]

-----------------------------------------------------------------------------
(* main(): one action per statement of the try block.                      *)

Pipeline == <<"load_config", "validate_config", "ensure_directories",
              "read_csv_data", "load_stopwords", "segment_text",
              "save_segmented_words", "Counter", "save_word_counts",
              "generate_wordcloud", "save_wordcloud", "display_wordcloud">>

\* A called step either returns and main() goes on to `next`, or raises and
\* the except clause of main() logs the error and calls sys.exit(1).
Step(name, res, next) ==
    /\ trace' = Append(trace, name)
    /\ error' = IF res.kind = "none" THEN error
                ELSE [kind |-> res.kind, step |-> name]
    /\ IF res.raised
       THEN pc' = "exit" /\ exitCode' = 1
       ELSE pc' = next /\ exitCode' = exitCode

LoadConfig ==
    /\ pc = "load_config"
    /\ LET res == load_config(configFile)
       IN  /\ config' = IF res.raised THEN config ELSE res.value
           /\ Step("load_config", res, "validate_config")
    /\ UNCHANGED <<configFile, csvFile, df, stopFile, stopwords, cutTokens,
                   word_list, word_counts, files, dumpTxt, countsCsv, display,
                   displayed>>

\* A YAML document that is not a mapping (an empty file loads as None) makes
\* validate_config raise a TypeError.
ValidateConfig ==
    /\ pc = "validate_config"
    /\ IF configFile.kind = "nonmap"
       THEN /\ config' = config
            /\ Step("validate_config", Raise("TypeError"), "ensure_directories")
       ELSE /\ config' = validate_config(config)
            /\ Step("validate_config", Return(0), "ensure_directories")
    /\ UNCHANGED <<configFile, csvFile, df, stopFile, stopwords, cutTokens,
                   word_list, word_counts, files, dumpTxt, countsCsv, display,
                   displayed>>

EnsureDirectories ==
    /\ pc = "ensure_directories"
    /\ \E ok \in BOOLEAN :
          Step("ensure_directories",
               IF ok THEN Return(0) ELSE Raise("OSError"), "read_csv_data")
    /\ UNCHANGED <<configFile, config, csvFile, df, stopFile, stopwords,
                   cutTokens, word_list, word_counts, files, dumpTxt,
                   countsCsv, display, displayed>>

ReadCsvData ==
    /\ pc = "read_csv_data"
    /\ LET res == read_csv_data(csvFile, config["text_column"])
       IN  /\ df' = IF res.raised THEN df ELSE res.value
           /\ Step("read_csv_data", res, "load_stopwords")
    /\ UNCHANGED <<configFile, config, csvFile, stopFile, stopwords, cutTokens,
                   word_list, word_counts, files, dumpTxt, countsCsv, display,
                   displayed>>

LoadStopwords ==
    /\ pc = "load_stopwords"
    /\ stopwords' = load_stopwords(stopFile)
    /\ Step("load_stopwords", Return(0), "segment_text")
    /\ UNCHANGED <<configFile, config, csvFile, df, stopFile, cutTokens,
                   word_list, word_counts, files, dumpTxt, countsCsv, display,
                   displayed>>

\* segment_text followed by the `if not word_list: sys.exit(1)` of main().
\* SystemExit is not an Exception, so the except clause lets it through and
\* the process ends with the status given to sys.exit.
SegmentText ==
    /\ pc = "segment_text"
    /\ LET wl == segment_text(cutTokens, stopwords, config["min_word_length"])
       IN  /\ word_list' = wl
           /\ Step("segment_text",
                   IF NoWords(wl) THEN Raise("NoWordsExtracted") ELSE Return(0),
                   "save_segmented_words")
    /\ UNCHANGED <<configFile, config, csvFile, df, stopFile, stopwords,
                   cutTokens, word_counts, files, dumpTxt, countsCsv, display,
                   displayed>>

SaveSegmentedWords ==
    /\ pc = "save_segmented_words"
    /\ \E r \in WriteResults :
          LET res == save_segmented_words(word_list, files.dump, r)
          IN  /\ files' = [files EXCEPT !.dump = res.file]
              /\ dumpTxt' = res.lines
              /\ Step("save_segmented_words", res, "Counter")
    /\ UNCHANGED <<configFile, config, csvFile, df, stopFile, stopwords,
                   cutTokens, word_list, word_counts, countsCsv, display,
                   displayed>>

CountWords ==
    /\ pc = "Counter"
    /\ word_counts' = Counter(word_list)
    /\ Step("Counter", Return(0), "save_word_counts")
    /\ UNCHANGED <<configFile, config, csvFile, df, stopFile, stopwords,
                   cutTokens, word_list, files, dumpTxt, countsCsv, display,
                   displayed>>

SaveWordCounts ==
    /\ pc = "save_word_counts"
    /\ \E r \in WriteResults :
          LET res == save_word_counts(word_counts, files.counts, r)
          IN  /\ files' = [files EXCEPT !.counts = res.file]
              /\ countsCsv' = res.rows
              /\ Step("save_word_counts", res, "generate_wordcloud")
    /\ UNCHANGED <<configFile, config, csvFile, df, stopFile, stopwords,
                   cutTokens, word_list, word_counts, dumpTxt, display,
                   displayed>>

GenerateWordcloud ==
    /\ pc = "generate_wordcloud"
    /\ \E r \in {"ok", "render_failed"} :
          Step("generate_wordcloud", generate_wordcloud(r), "save_wordcloud")
    /\ UNCHANGED <<configFile, config, csvFile, df, stopFile, stopwords,
                   cutTokens, word_list, word_counts, files, dumpTxt,
                   countsCsv, display, displayed>>

SaveWordcloud ==
    /\ pc = "save_wordcloud"
    /\ \E r \in WriteResults :
          LET res == save_wordcloud(files.img, r)
          IN  /\ files' = [files EXCEPT !.img = res.file]
              /\ Step("save_wordcloud", res, "display_wordcloud")
    /\ UNCHANGED <<configFile, config, csvFile, df, stopFile, stopwords,
                   cutTokens, word_list, word_counts, dumpTxt, countsCsv,
                   display, displayed>>

\* `if display: display_wordcloud(wc)`, then main() returns and the process
\* ends with status 0.
DisplayWordcloud ==
    /\ pc = "display_wordcloud"
    /\ display
    /\ \E r \in {"ok", "viewer_failed"} :
          LET res == display_wordcloud(r)
          IN  /\ displayed' = res.shown
              /\ trace' = Append(trace, "display_wordcloud")
              /\ error' = error
              /\ pc' = "exit"
              /\ exitCode' = IF res.raised THEN 1 ELSE 0
    /\ UNCHANGED <<configFile, config, csvFile, df, stopFile, stopwords,
                   cutTokens, word_list, word_counts, files, dumpTxt,
                   countsCsv, display>>

Complete ==
    /\ pc = "display_wordcloud"
    /\ ~display
    /\ pc' = "exit"
    /\ exitCode' = 0
    /\ UNCHANGED <<error, trace, configFile, config, csvFile, df, stopFile,
                   stopwords, cutTokens, word_list, word_counts, files,
                   dumpTxt, countsCsv, display, displayed>>

-----------------------------------------------------------------------------
(* Inputs.                                                                 *)

supplied ==
    [csv_path |-> "data/titles.csv",
     text_column |-> "body",
     output_img |-> "output/cloud.png",
     font_path |-> "fonts/NotoSansCJK.ttc",
     background_color |-> "black",
     colormap |-> "plasma",
     max_words |-> 50,
     relative_scaling |-> "1.0",
     use_custom_colors |-> TRUE,
     custom_colors |-> <<"#000000", "#FFFFFF">>]

\* A configuration mapping that supplies the keys of S, with the given width,
\* height and min_word_length.
ConfigMap(S, w, h, m) ==
    [k \in S |-> IF k = "width" THEN w
                 ELSE IF k = "height" THEN h
                 ELSE IF k = "min_word_length" THEN m
                 ELSE supplied[k]]

DimValues == (-1)..MaxDim

MinLenValues == (-1)..MaxMinLen

\* What jieba.cut may yield: blanks, words, and words with blanks around them.
Tokens == {<<" ">>, <<"a">>, <<"b">>, <<" ", "a">>, <<"a", "b", " ">>}

TokenSeqs == UNION {[1..n -> Tokens] : n \in 0..MaxTokens}

StopCandidates == {<<"a">>, <<"a", "b">>}

NoFiles == [dump |-> "absent", counts |-> "absent", img |-> "absent"]

StaleFiles == [dump |-> "stale", counts |-> "stale", img |-> "stale"]

TypeOK ==
    /\ exitCode \in {-1, 0, 1}
    /\ display \in BOOLEAN
    /\ displayed \in {"no", "shown", "failed"}
    /\ \A f \in DOMAIN files : files[f] \in {"absent", "stale", "partial", "written"}

\* The state of main() on entry.
Entry ==
    /\ pc = "load_config"
    /\ exitCode = -1
    /\ error = NoError
    /\ trace = <<>>
    /\ config = EmptyMap
    /\ df = NoDf
    /\ stopwords = {}
    /\ word_list = <<>>
    /\ word_counts = <<>>
    /\ dumpTxt = <<>>
    /\ countsCsv = <<>>
    /\ displayed = "no"

MainConfigFiles ==
    {[kind |-> k, map |-> EmptyMap] : k \in {"missing", "unparsable", "nonmap"}}
    \cup {[kind |-> "mapping", map |-> ConfigMap(S, 0, 0, m)] :
             S \in SUBSET {"text_column", "width", "min_word_length"},
             m \in {0, MaxMinLen}}

CsvFiles ==
    {[kind |-> k, columns |-> {}, hasRows |-> FALSE] :
        k \in {"missing", "nocontent", "malformed"}}
    \cup {[kind |-> "table", columns |-> c, hasRows |-> h] :
             c \in (SUBSET {"title", "body"}) \ {{}}, h \in BOOLEAN}

StopFiles ==
    {[kind |-> k, lines |-> {}] : k \in {"missing", "unreadable"}}
    \cup {[kind |-> "listed", lines |-> l] :
             l \in SUBSET {<<"a", " ">>, <<" ">>, <<"a", "b">>}}

MainCuts == {<<<<" ">>>>, <<<<"a">>>>, <<<<"a", "b">>, <<" ">>, <<"a">>>>,
             <<<<"b">>, <<"a", "b", " ">>, <<"b">>>>}

Init ==
    /\ Entry
    /\ configFile \in MainConfigFiles
    /\ csvFile \in CsvFiles
    /\ stopFile \in StopFiles
    /\ cutTokens \in IF csvFile.hasRows THEN MainCuts ELSE {<<>>}
    /\ files \in {NoFiles, StaleFiles}
    /\ display \in BOOLEAN

Next ==
    \/ LoadConfig
    \/ ValidateConfig
    \/ EnsureDirectories
    \/ ReadCsvData
    \/ LoadStopwords
    \/ SegmentText
    \/ SaveSegmentedWords
    \/ CountWords
    \/ SaveWordCounts
    \/ GenerateWordcloud
    \/ SaveWordcloud
    \/ DisplayWordcloud
    \/ Complete

Spec == Init /\ [][Next]_vars

-----------------------------------------------------------------------------
(* validate_config over every subset of the recognized keys: the run is    *)
(* taken up after load_config has returned the mapping.                    *)

InitValidate ==
    /\ pc = "validate_config"
    /\ exitCode = -1
    /\ error = NoError
    /\ trace = <<"load_config">>
    /\ \E S \in SUBSET Keys, w \in DimValues, h \in DimValues, m \in MinLenValues :
          configFile = [kind |-> "mapping", map |-> ConfigMap(S, w, h, m)]
    /\ config = configFile.map
    /\ csvFile = [kind |-> "table", columns |-> {"title"}, hasRows |-> FALSE]
    /\ df = NoDf
    /\ stopFile = [kind |-> "missing", lines |-> {}]
    /\ stopwords = {}
    /\ cutTokens = <<>>
    /\ word_list = <<>>
    /\ word_counts = <<>>
    /\ files = NoFiles
    /\ dumpTxt = <<>>
    /\ countsCsv = <<>>
    /\ display = FALSE
    /\ displayed = "no"

NextValidate == ValidateConfig

SpecValidate == InitValidate /\ [][NextValidate]_vars

(* segment_text, Counter and the two intermediate writes over every token  *)
(* sequence up to MaxTokens: the run is taken up after load_stopwords.     *)

InitSegment ==
    /\ pc = "segment_text"
    /\ exitCode = -1
    /\ error = NoError
    /\ trace = SubSeq(Pipeline, 1, 5)
    /\ \E m \in 0..MaxMinLen :
          configFile = [kind |-> "mapping",
                        map |-> ConfigMap({"min_word_length"}, 0, 0, m)]
    /\ config = validate_config(configFile.map)
    /\ cutTokens \in TokenSeqs
    /\ csvFile = [kind |-> "table", columns |-> {"title"},
                  hasRows |-> cutTokens # <<>>]
    /\ df = [columns |-> {"title"}, hasRows |-> cutTokens # <<>>]
    /\ stopwords \in SUBSET StopCandidates
    /\ stopFile = [kind |-> "listed", lines |-> stopwords]
    /\ word_list = <<>>
    /\ word_counts = <<>>
    /\ files = NoFiles
    /\ dumpTxt = <<>>
    /\ countsCsv = <<>>
    /\ display = FALSE
    /\ displayed = "no"

NextSegment ==
    \/ SegmentText
    \/ SaveSegmentedWords
    \/ CountWords
    \/ SaveWordCounts

SpecSegment == InitSegment /\ [][NextSegment]_vars

-----------------------------------------------------------------------------
(* Properties.                                                             *)

Called(s) == s \in Range(trace)

Failed == error.kind # "none"

\* The step was called and returned without raising.
Returned(s) == Called(s) /\ error.step # s

WrittenByRun(f) == files[f] \in {"written", "partial"}

\* C1: whenever the token sequence returned by segment_text is empty, the
\* run ends with exit code 1 right there: no later step is called and the run
\* writes no token dump, no frequency table and no image.
C1_EmptyTokensExit ==
    (Called("segment_text") /\ word_list = <<>>) =>
        /\ pc = "exit"
        /\ exitCode = 1
        /\ Last(trace) = "segment_text"
        /\ \A f \in DOMAIN files : ~WrittenByRun(f)
        /\ dumpTxt = <<>>
        /\ countsCsv = <<>>

\* Tokens were cut from the text, and the filter removed all of them.
C1_Witness ==
    /\ Called("segment_text")
    /\ cutTokens # <<>>
    /\ word_list = <<>>
    /\ pc = "exit"
    /\ exitCode = 1

\* C2: a step that fails with a fatal error ends the run with exit code 1 and
\* is the last step called; steps are called in pipeline order; the run ends
\* with exit code 0 only if no step failed, every step up to the image write
\* was called and the three output files were written.
C2_FatalExit ==
    /\ IsPrefix(trace, Pipeline)
    /\ (pc = "exit") = (exitCode # -1)
    /\ Failed => /\ pc = "exit"
                 /\ exitCode = 1
                 /\ Last(trace) = error.step
    /\ exitCode = 0 => /\ ~Failed
                       /\ IsPrefix(SubSeq(Pipeline, 1, 11), trace)
                       /\ \A f \in DOMAIN files : files[f] = "written"

\* The renderer failed after both intermediate files had been written.
C2_Witness ==
    /\ pc = "exit"
    /\ exitCode = 1
    /\ error = [kind |-> "RenderError", step |-> "generate_wordcloud"]
    /\ files.counts = "written"
    /\ files.img # "written"

\* C3 as stated: reading a table with zero data rows, a header line without
\* rows after it included, fails in read_csv_data with an EmptyData error.
C3_ZeroRowsEmptyData ==
    (Called("read_csv_data") /\ csvFile.kind \in {"nocontent", "table"}
        /\ ~csvFile.hasRows) =>
        error = [kind |-> "EmptyData", step |-> "read_csv_data"]

\* C3 as amended: a file without any content fails in read_csv_data with an
\* EmptyData error; a header line without data rows never does: it fails with
\* ColumnNotFound if the text column is not in the header, and otherwise
\* read_csv_data returns the table of zero rows to main().
C3_NoContentEmptyData ==
    Called("read_csv_data") =>
        /\ csvFile.kind = "nocontent" =>
              /\ error = [kind |-> "EmptyData", step |-> "read_csv_data"]
              /\ df = NoDf
        /\ (csvFile.kind = "table" /\ ~csvFile.hasRows) =>
              IF config["text_column"] \in csvFile.columns
              THEN /\ Returned("read_csv_data")
                   /\ df = [columns |-> {config["text_column"]},
                            hasRows |-> FALSE]
              ELSE error = [kind |-> "ColumnNotFound", step |-> "read_csv_data"]

\* An empty file was read.
C3_Witness ==
    /\ Called("read_csv_data")
    /\ csvFile.kind = "nocontent"
    /\ error.kind = "EmptyData"
    /\ exitCode = 1

Validated == Returned("validate_config")

Given == configFile.map

\* C4 as stated: after validate_config every recognized key is present and
\* holds the supplied value or the documented default.
C4_SuppliedOrDefault ==
    Validated =>
        \A k \in Keys :
            /\ k \in DOMAIN config
            /\ \/ k \in DOMAIN Given /\ config[k] = Given[k]
               \/ config[k] = defaults[k]

\* C4 as amended: after validate_config every recognized key is present and
\* holds the supplied value or the documented default, except that
\* min_word_length holds 1 when the supplied value is below 1.
C4_SuppliedDefaultOrClamped ==
    Validated =>
        \A k \in Keys :
            /\ k \in DOMAIN config
            /\ \/ k \in DOMAIN Given /\ config[k] = Given[k]
               \/ config[k] = defaults[k]
               \/ /\ k = "min_word_length"
                  /\ k \in DOMAIN Given
                  /\ Given[k] < 1
                  /\ config[k] = 1

\* Some keys supplied, some defaulted, min_word_length clamped.
C4_Witness ==
    /\ Validated
    /\ "csv_path" \in DOMAIN Given
    /\ "colormap" \notin DOMAIN Given
    /\ "min_word_length" \in DOMAIN Given
    /\ Given["min_word_length"] < 1
    /\ config["min_word_length"] = 1

\* The width and height validate_config tests, after defaulting.
GivenOrDefault(k) == IF k \in DOMAIN Given THEN Given[k] ELSE defaults[k]

\* C5: if the width or the height is <= 0, validate_config sets both to
\* 1920 and 1080; if both are > 0 they are unchanged; so both are > 0 after
\* validation.
C5_Dimensions ==
    Validated =>
        LET w == GivenOrDefault("width")
            h == GivenOrDefault("height")
        IN  /\ (w <= 0 \/ h <= 0) =>
                  config["width"] = 1920 /\ config["height"] = 1080
            /\ (w > 0 /\ h > 0) =>
                  config["width"] = w /\ config["height"] = h
            /\ config["width"] > 0
            /\ config["height"] > 0

\* A valid width is reset together with an invalid height.
C5_Witness ==
    /\ Validated
    /\ "width" \in DOMAIN Given
    /\ "height" \in DOMAIN Given
    /\ Given["width"] > 0
    /\ Given["height"] <= 0
    /\ config["width"] = 1920

\* C6: a supplied min_word_length < 1 becomes 1, a supplied value >= 1 is
\* unchanged, and an absent key becomes 2.
C6_MinWordLength ==
    Validated =>
        IF "min_word_length" \in DOMAIN Given
        THEN IF Given["min_word_length"] < 1
             THEN config["min_word_length"] = 1
             ELSE config["min_word_length"] = Given["min_word_length"]
        ELSE config["min_word_length"] = 2

\* min_word_length 0 was supplied.
C6_Witness ==
    /\ Validated
    /\ "min_word_length" \in DOMAIN Given
    /\ Given["min_word_length"] = 0
    /\ config["min_word_length"] = 1

\* s is t with some elements left out.
RECURSIVE IsSubSeq(_, _)
IsSubSeq(s, t) ==
    IF s = <<>> THEN TRUE
    ELSE IF t = <<>> THEN FALSE
    ELSE IF Head(s) = Head(t) THEN IsSubSeq(Tail(s), Tail(t))
    ELSE IsSubSeq(s, Tail(t))

\* C7: every token of the filtered sequence is non-empty after trimming, has
\* length >= min_length and is no stopword; the sequence keeps the order of
\* the segmentation; and filtering it again with the same stopwords and
\* min_length yields the same sequence.
C7_FilterIdempotent ==
    Called("segment_text") =>
        /\ \A i \in 1..Len(word_list) :
              /\ strip(word_list[i]) # <<>>
              /\ Len(word_list[i]) >= config["min_word_length"]
              /\ word_list[i] \notin stopwords
        /\ IsSubSeq(word_list, [i \in 1..Len(cutTokens) |-> strip(cutTokens[i])])
        /\ segment_text(word_list, stopwords, config["min_word_length"]) = word_list

\* Some tokens were dropped, some kept, and a kept one had to be trimmed.
C7_Witness ==
    /\ Called("segment_text")
    /\ stopwords # {}
    /\ Len(word_list) >= 2
    /\ Len(word_list) < Len(cutTokens)
    /\ \E i \in 1..Len(cutTokens) :
          /\ cutTokens[i] # strip(cutTokens[i])
          /\ strip(cutTokens[i]) \in Range(word_list)

Occurrences(w) == Cardinality({j \in 1..Len(word_list) : word_list[j] = w})

FirstIndex(w) ==
    CHOOSE j \in 1..Len(word_list) :
        /\ word_list[j] = w
        /\ \A k \in 1..(j - 1) : word_list[k] # w

\* C8: the frequency table written by save_word_counts has one row per
\* distinct token, each with the token's number of occurrences, sorted by
\* count descending, rows of equal count in the order of the tokens' first
\* occurrence.
C8_FrequencyTable ==
    files.counts = "written" =>
        /\ Len(countsCsv) = Cardinality(Range(word_list))
        /\ {countsCsv[i][1] : i \in 1..Len(countsCsv)} = Range(word_list)
        /\ \A i \in 1..Len(countsCsv) :
              countsCsv[i][2] = Occurrences(countsCsv[i][1])
        /\ \A i, j \in 1..Len(countsCsv) :
              i < j =>
                 /\ countsCsv[i][2] >= countsCsv[j][2]
                 /\ countsCsv[i][2] = countsCsv[j][2] =>
                       FirstIndex(countsCsv[i][1]) < FirstIndex(countsCsv[j][1])

\* A table with a tie behind a more frequent token that occurred later.
C8_Witness ==
    /\ files.counts = "written"
    /\ Len(countsCsv) = 3
    /\ countsCsv[1][2] = 2
    /\ FirstIndex(countsCsv[1][1]) > 1
    /\ countsCsv[2][2] = countsCsv[3][2]

\* C9: a failure of the interactive display is only logged: the run ends with
\* exit code 0, no error is raised and the image file stays written.
C9_DisplayNotFatal ==
    displayed = "failed" =>
        /\ pc = "exit"
        /\ exitCode = 0
        /\ ~Failed
        /\ files.img = "written"

\* The viewer failed.
C9_Witness ==
    /\ display
    /\ displayed = "failed"
    /\ pc = "exit"

\* C10: the image is written only after the frequency table, and the table
\* only after the token dump; a file a step has written stays as written
\* through every later step, a failing one and the exit included.
C10_OutputsOrdered ==
    /\ files.img = "written" => files.counts = "written"
    /\ files.counts = "written" => files.dump = "written"
    /\ Returned("save_segmented_words") =>
          files.dump = "written" /\ dumpTxt = word_list
    /\ Returned("save_word_counts") =>
          files.counts = "written" /\ countsCsv = most_common(word_counts)
    /\ Returned("save_wordcloud") => files.img = "written"

\* The image write failed; the dump and the table are still there.
C10_Witness ==
    /\ pc = "exit"
    /\ exitCode = 1
    /\ error.step = "save_wordcloud"
    /\ files.dump = "written"
    /\ files.counts = "written"
    /\ files.img = "partial"
    /\ dumpTxt = word_list

====
